---- MODULE Spec2Model ----
(***************************************************************************)
(* shellver: detection of the calling process's shell by walking the       *)
(* /proc parent chain (src/src/lib.rs).                                    *)
(*                                                                         *)
(* Text is a sequence of one-character strings; a byte that is not ASCII   *)
(* is a token of HighByte.  A u32 is its canonical decimal numeral (a      *)
(* sequence of digit characters without leading zeros), because the        *)
(* values near 2^32 that the overflow cases need do not fit the 32-bit     *)
(* integers of TLC.                                                        *)
(***************************************************************************)
EXTENDS Integers, Sequences, FiniteSets, TLC

VARIABLES pc, pid, hops, name, result,
          reads, runs, examined, lowComm, cyc, passed, cand, probe, fail,
          call, ret

vars == <<pc, pid, hops, name, result, reads, runs, examined, lowComm, cyc,
          passed, cand, probe, fail, call, ret>>

detectVars == <<pc, pid, hops, name, result, reads, examined, lowComm, cyc,
                passed, cand, probe, fail>>

\* ------------------------------------------------------------------ values

Some(v) == [some |-> TRUE, val |-> v]

None == [some |-> FALSE]

Ok(v) == [ok |-> TRUE, val |-> v]

Err(k) == [ok |-> FALSE, kind |-> k]

\* ------------------------------------------------------------------ text

Digits == <<"0", "1", "2", "3", "4", "5", "6", "7", "8", "9">>

IsDigit(c) == \E i \in 1..Len(Digits) : Digits[i] = c

DigitVal(c) == (CHOOSE i \in 1..Len(Digits) : Digits[i] = c) - 1

\* char::is_whitespace on the characters the texts use
WhiteSpace == {" ", "\t", "\n", "\r", "\f"}

\* the bytes above 0x7f the captured outputs use
HighByte == [b \in {"x80", "xA9", "xC0", "xC3", "xFE", "xFF"} |->
               CASE b = "x80" -> 128 [] b = "xA9" -> 169 [] b = "xC0" -> 192
                 [] b = "xC3" -> 195 [] b = "xFE" -> 254 [] b = "xFF" -> 255]

ByteVal(b) == IF b \in DOMAIN HighByte THEN HighByte[b] ELSE 0

Drop(s, n) == SubSeq(s, n + 1, Len(s))

StartsWith(s, p) == Len(s) >= Len(p) /\ SubSeq(s, 1, Len(p)) = p

EndsWith(s, p) == Len(s) >= Len(p) /\ SubSeq(s, Len(s) - Len(p) + 1, Len(s)) = p

\* str::strip_prefix
StripPrefix(s, p) == IF StartsWith(s, p) THEN Some(Drop(s, Len(p))) ELSE None

RECURSIVE TrimEnd(_)
\* str::trim_end: every trailing whitespace character goes
TrimEnd(s) ==
  IF s # <<>> /\ s[Len(s)] \in WhiteSpace THEN TrimEnd(SubSeq(s, 1, Len(s) - 1)) ELSE s

RECURSIVE TrimStart(_)
TrimStart(s) == IF s # <<>> /\ s[1] \in WhiteSpace THEN TrimStart(Tail(s)) ELSE s

\* str::trim
Trim(s) == TrimStart(TrimEnd(s))

RECURSIVE SplitInclusive(_)
\* the pieces of the text, each up to and including its "\n"
SplitInclusive(text) ==
  IF text = <<>> THEN <<>>
  ELSE IF \E i \in 1..Len(text) : text[i] = "\n"
       THEN LET nl == CHOOSE i \in 1..Len(text) :
                        text[i] = "\n" /\ \A j \in 1..(i - 1) : text[j] # "\n"
            IN <<SubSeq(text, 1, nl)>> \o SplitInclusive(Drop(text, nl))
       ELSE <<text>>

\* one line of str::lines: the "\n" is removed, and a "\r" before it
LineOf(piece) ==
  IF EndsWith(piece, <<"\n">>)
  THEN LET l == SubSeq(piece, 1, Len(piece) - 1)
       IN IF EndsWith(l, <<"\r">>) THEN SubSeq(l, 1, Len(l) - 1) ELSE l
  ELSE piece

\* str::lines
Lines(text) ==
  LET ps == SplitInclusive(text) IN [i \in 1..Len(ps) |-> LineOf(ps[i])]

\* ------------------------------------------------------------------ u32

U32Max == <<"4", "2", "9", "4", "9", "6", "7", "2", "9", "5">>

RECURSIVE Canon(_)
\* the canonical numeral of a non-empty digit string
Canon(ds) == IF Len(ds) > 1 /\ ds[1] = "0" THEN Canon(Tail(ds)) ELSE ds

RECURSIVE NumLess(_, _)
\* a < b on canonical numerals
NumLess(a, b) ==
  IF Len(a) # Len(b) THEN Len(a) < Len(b)
  ELSE IF a = <<>> THEN FALSE
  ELSE IF a[1] # b[1] THEN DigitVal(a[1]) < DigitVal(b[1])
  ELSE NumLess(Tail(a), Tail(b))

\* str::parse::<u32>: an optional "+", then digits only, and no overflow
ParseU32(s) ==
  LET ds == IF s # <<>> /\ s[1] = "+" THEN Tail(s) ELSE s
  IN IF ds = <<>> \/ \E i \in 1..Len(ds) : ~IsDigit(ds[i]) THEN Err("ParseIntError")
     ELSE IF NumLess(U32Max, Canon(ds)) THEN Err("ParseIntError")
     ELSE Ok(Canon(ds))

\* ------------------------------------------------------------------ lib.rs

SHELLS == << <<"b", "a", "s", "h">>, <<"s", "h">>, <<"d", "a", "s", "h">>,
             <<"z", "s", "h">>, <<"f", "i", "s", "h">>, <<"k", "s", "h">>,
             <<"m", "k", "s", "h">>, <<"t", "c", "s", "h">>, <<"c", "s", "h">> >>

MaxHops == 32

PPidLabel == <<"P", "P", "i", "d", ":">>

RECURSIVE ScanPPidSkipMalformed(_)
\* the loop, were a line whose token does not parse passed over
ScanPPidSkipMalformed(ls) ==
  IF ls = <<>> THEN Err("NotFound")
  ELSE LET rest == StripPrefix(ls[1], PPidLabel)
       IN IF rest.some /\ ParseU32(Trim(rest.val)).ok
          THEN Ok(ParseU32(Trim(rest.val)).val)
          ELSE ScanPPidSkipMalformed(Tail(ls))

RECURSIVE ScanPPid(_)
\* the loop of ppid_from_text over the lines: the first labelled line decides
ScanPPid(ls) ==
  IF ls = <<>> THEN Err("NotFound")
  ELSE LET rest == StripPrefix(ls[1], PPidLabel)
       IN IF rest.some
          THEN LET val == ParseU32(Trim(rest.val))
               IN IF val.ok THEN Ok(val.val) ELSE Err("InvalidData")
          ELSE ScanPPid(Tail(ls))

ppid_from_text(text) == ScanPPid(Lines(text))

\* r is what read(path) returned
ppid_from_path_with(r) == IF r.ok THEN ppid_from_text(r.val) ELSE r

\* the search, were the first entry of SHELLS left out of it
FindShellSkipFirst(t) ==
  IF \E i \in 2..Len(SHELLS) : SHELLS[i] = t
  THEN Some(SHELLS[CHOOSE i \in 2..Len(SHELLS) : SHELLS[i] = t])
  ELSE None

\* Iterator::find over SHELLS
FindShell(t) ==
  IF \E i \in 1..Len(SHELLS) : SHELLS[i] = t
  THEN Some(SHELLS[CHOOSE i \in 1..Len(SHELLS) :
                     SHELLS[i] = t /\ \A j \in 1..(i - 1) : SHELLS[j] # t])
  ELSE None

\* the classification, were an unreadable record taken for one that is no shell
shell_from_pid_skip_unreadable(r) ==
  IF r.ok THEN Ok(FindShell(TrimEnd(r.val))) ELSE Ok(None)

\* r is what read(path) returned
shell_from_pid_with(r) == IF r.ok THEN Ok(FindShell(TrimEnd(r.val))) ELSE r

IsCont(b) == ByteVal(b) \in 128..191

\* the decoding, were it lossy: every byte string is accepted
ValidUtf8Lossy(bs) == TRUE

RECURSIVE ValidUtf8(_)
\* the validation of String::from_utf8
ValidUtf8(bs) ==
  IF bs = <<>> THEN TRUE
  ELSE LET b == ByteVal(bs[1])
           second == IF Len(bs) >= 2 THEN ByteVal(bs[2]) ELSE 0
       IN IF b < 128 THEN ValidUtf8(Tail(bs))
          ELSE IF b \in 194..223
               THEN Len(bs) >= 2 /\ IsCont(bs[2]) /\ ValidUtf8(Drop(bs, 2))
          ELSE IF b \in 224..239
               THEN /\ Len(bs) >= 3
                    /\ IF b = 224 THEN second \in 160..191
                       ELSE IF b = 237 THEN second \in 128..159
                       ELSE second \in 128..191
                    /\ IsCont(bs[3])
                    /\ ValidUtf8(Drop(bs, 3))
          ELSE IF b \in 240..244
               THEN /\ Len(bs) >= 4
                    /\ IF b = 240 THEN second \in 144..191
                       ELSE IF b = 244 THEN second \in 128..143
                       ELSE second \in 128..191
                    /\ IsCont(bs[3])
                    /\ IsCont(bs[4])
                    /\ ValidUtf8(Drop(bs, 4))
          ELSE FALSE

RECURSIVE RunEnd(_, _)
\* the last index of the digit run that starts at i
RunEnd(s, i) == IF i < Len(s) /\ IsDigit(s[i + 1]) THEN RunEnd(s, i + 1) ELSE i

DotDigit(s, i) == i + 2 <= Len(s) /\ s[i + 1] = "." /\ IsDigit(s[i + 2])

\* the end of the match of [0-9]+\.[0-9]+(?:\.[0-9]+)? that starts at i, or 0
MatchAt(s, i) ==
  IF ~IsDigit(s[i]) THEN 0
  ELSE LET a == RunEnd(s, i)
       IN IF ~DotDigit(s, a) THEN 0
          ELSE LET b == RunEnd(s, a + 2)
               IN IF DotDigit(s, b) THEN RunEnd(s, b + 2) ELSE b

\* Regex::find: the leftmost match
RegexFind(s) ==
  IF \E i \in 1..Len(s) : MatchAt(s, i) > 0
  THEN LET i == CHOOSE k \in 1..Len(s) :
                  MatchAt(s, k) > 0 /\ \A j \in 1..(k - 1) : MatchAt(s, j) = 0
       IN Some(SubSeq(s, i, MatchAt(s, i)))
  ELSE None

\* the probe, were a text without a version an error
shell_version_match_required(n, r) ==
  [ran |-> TRUE,
   res |-> IF ~r.ok THEN r
           ELSE IF ~ValidUtf8(r.val) THEN Err("InvalidData")
           ELSE IF RegexFind(r.val).some THEN Ok(RegexFind(r.val))
           ELSE Err("NotFound")]

\* r is what run(name) returns; ran says whether run was called (line 87 calls
\* it for every name)
shell_version_with(n, r) ==
  [ran |-> TRUE,
   res |-> IF ~r.ok THEN r
           ELSE IF ~ValidUtf8(r.val) THEN Err("InvalidData")
           ELSE Ok(RegexFind(r.val))]

\* ------------------------------------------------------------------ inputs

MaxPad == 2

\* the kinds of io::Error the read and run capabilities fail with
IoKinds == {"PermissionDenied", "NotFound", "InvalidInput"}

Range(s) == {s[i] : i \in 1..Len(s)}

\* the whitespace runs of at most n characters
Pads(n) == UNION {[1..k -> {" ", "\t"}] : k \in 0..n}

\* the catalog of the specification: the nine names of SHELLS and four more
Catalog == Range(SHELLS) \cup {<<"n", "u">>, <<"e", "l", "v", "i", "s", "h">>, <<"x", "o", "n", "s", "h">>, <<"p", "w", "s", "h">>}

\* command names that are in neither catalog
OtherNames == {<<"u", "n", "k", "n", "o", "w", "n">>,
               <<"B", "a", "s", "h">>,
               <<"b", "a", "s", "h", "-", "c", "o", "m", "p", "l", "e", "t", "i", "o", "n", "-", "h", "e", "l", "p", "e", "r">>,
               <<"b", "a", "s">>,
               <<"a", "s", "h">>,
               <<"x", "b", "a", "s", "h">>,
               <<"p", "y", "t", "h", "o", "n", "3">>,
               <<>>}

Names == Catalog \cup OtherNames

\* what follows the command name in a comm text; a comm record ends in one "\n"
Trailers == {p \o <<"\n">> : p \in Pads(MaxPad)}
              \cup {<<>>, <<"\n", "\n">>, <<"\r", "\n">>, <<"\n", " ">>}

CommTexts == {[name |-> n, trailer |-> t, text |-> n \o t] : n \in Names, t \in Trailers}

\* the token after the label, with the parent id it stands for
Tokens == {[tok |-> <<"1", "0", "0">>, expect |-> Ok(<<"1", "0", "0">>)],
           [tok |-> <<"1", "2", "3">>, expect |-> Ok(<<"1", "2", "3">>)],
           [tok |-> <<"1">>, expect |-> Ok(<<"1">>)],
           [tok |-> <<"0">>, expect |-> Ok(<<"0">>)],
           [tok |-> <<"2">>, expect |-> Ok(<<"2">>)],
           [tok |-> <<"7">>, expect |-> Ok(<<"7">>)],
           [tok |-> <<"4", "2", "9", "4", "9", "6", "7", "2", "9", "5">>, expect |-> Ok(<<"4", "2", "9", "4", "9", "6", "7", "2", "9", "5">>)],
           [tok |-> <<"4", "2", "9", "4", "9", "6", "7", "2", "9", "6">>, expect |-> Err("InvalidData")],
           [tok |-> <<"9", "9", "9", "9", "9", "9", "9", "9", "9", "9", "9">>, expect |-> Err("InvalidData")],
           [tok |-> <<"b", "a", "d">>, expect |-> Err("InvalidData")],
           [tok |-> <<"-", "1">>, expect |-> Err("InvalidData")],
           [tok |-> <<>>, expect |-> Err("InvalidData")],
           [tok |-> <<"0", "0", "7">>, expect |-> Ok(<<"7">>)],
           [tok |-> <<"+", "5">>, expect |-> Ok(<<"5">>)],
           [tok |-> <<"1", "2", " ", "3", "4">>, expect |-> Err("InvalidData")],
           [tok |-> <<"0", "x", "1", "0">>, expect |-> Err("InvalidData")]}

LinesBefore == {<<>>, <<"N", "a", "m", "e", ":", "\t", "b", "a", "s", "h", "\n">>,
                <<"p", "p", "i", "d", ":", "\t", "9", "\n">>,
                <<" ", "P", "P", "i", "d", ":", "\t", "9", "\n">>}

LinesAfter == {<<>>, <<"P", "P", "i", "d", ":", "\t", "9", "\n">>,
               <<"P", "P", "i", "d", ":", "\t", "b", "a", "d", "\n">>,
               <<"U", "i", "d", ":", "\t", "0", "\n">>}

LineEnds == {<<"\n">>, <<"\r", "\n">>, <<>>, <<" ", "\n">>}

\* status texts with a labelled line, and the outcome its token stands for
LabelledTexts ==
  {[text |-> b \o PPidLabel \o p \o t.tok \o e \o (IF e = <<>> THEN <<>> ELSE a),
    expect |-> t.expect,
    plain |-> b = <<>> /\ a = <<>> /\ p = <<"\t">> /\ e = <<"\n">>] :
   b \in LinesBefore, p \in Pads(MaxPad), t \in Tokens, e \in LineEnds, a \in LinesAfter}

\* status texts without a labelled line
UnlabelledTexts ==
  {[text |-> b \o a, expect |-> Err("NotFound"), plain |-> b = <<>>] :
   b \in LinesBefore, a \in {<<>>, <<"U", "i", "d", ":", "\t", "0", "\n">>, <<"S", "t", "a", "t", "e", ":", "\t", "S">>}}

StatusTexts == LabelledTexts \cup UnlabelledTexts

\* captured standard output: whether it is valid UTF-8, its first dotted version
\* (major.minor[.patch]) and its first release tag (R and digits)
Outputs == {[out |-> <<"b", "a", "s", "h", " ", "5", ".", "2", ".", "0">>, valid |-> TRUE, dotted |-> Some(<<"5", ".", "2", ".", "0">>), tag |-> None],
            [out |-> <<"G", "N", "U", " ", "b", "a", "s", "h", ",", " ", "v", "e", "r", "s", "i", "o", "n", " ", "5", ".", "3", ".", "9", "(", "1", ")", "-", "r", "e", "l", "e", "a", "s", "e">>, valid |-> TRUE, dotted |-> Some(<<"5", ".", "3", ".", "9">>), tag |-> None],
            [out |-> <<"s", "h", " ", "(", "A", "T", "&", "T", " ", "R", "e", "s", "e", "a", "r", "c", "h", ")", " ", "2", "0", "2", "0", ".", "0", ".", "0">>, valid |-> TRUE, dotted |-> Some(<<"2", "0", "2", "0", ".", "0", ".", "0">>), tag |-> None],
            [out |-> <<"0", ".", "2", "1", ".", "0", "+", "a", "r", "c", "h", "l", "i", "n", "u", "x", "1">>, valid |-> TRUE, dotted |-> Some(<<"0", ".", "2", "1", ".", "0">>), tag |-> None],
            [out |-> <<"@", "(", "#", ")", "M", "I", "R", "B", "S", "D", " ", "K", "S", "H", " ", "R", "5", "9", " ", "2", "0", "2", "0", "/", "1", "0", "/", "3", "1">>, valid |-> TRUE, dotted |-> None, tag |-> Some(<<"R", "5", "9">>)],
            [out |-> <<"n", "o", " ", "v", "e", "r", "s", "i", "o", "n", " ", "h", "e", "r", "e">>, valid |-> TRUE, dotted |-> None, tag |-> None],
            [out |-> <<"z", "s", "h", " ", "5", ".", "9", " ", "(", "x", "8", "6", "_", "6", "4", ")">>, valid |-> TRUE, dotted |-> Some(<<"5", ".", "9">>), tag |-> None],
            [out |-> <<"1", ".", "2", ".", "3", ".", "4">>, valid |-> TRUE, dotted |-> Some(<<"1", ".", "2", ".", "3">>), tag |-> None],
            [out |-> <<"v", "1", ".", "2", " ", "t", "h", "e", "n", " ", "3", ".", "4", ".", "5">>, valid |-> TRUE, dotted |-> Some(<<"1", ".", "2">>), tag |-> None],
            [out |-> <<"7", ".">>, valid |-> TRUE, dotted |-> None, tag |-> None],
            [out |-> <<".", "5">>, valid |-> TRUE, dotted |-> None, tag |-> None],
            [out |-> <<"1", ".", ".", "2">>, valid |-> TRUE, dotted |-> None, tag |-> None],
            [out |-> <<>>, valid |-> TRUE, dotted |-> None, tag |-> None],
            [out |-> <<"R", "5", "9">>, valid |-> TRUE, dotted |-> None, tag |-> Some(<<"R", "5", "9">>)],
            [out |-> <<"c", "a", "f", "xC3", "xA9", " ", "1", ".", "0">>, valid |-> TRUE, dotted |-> Some(<<"1", ".", "0">>), tag |-> None],
            [out |-> <<"xFF", "xFE">>, valid |-> FALSE, dotted |-> None, tag |-> None],
            [out |-> <<"xC3">>, valid |-> FALSE, dotted |-> None, tag |-> None],
            [out |-> <<"x80">>, valid |-> FALSE, dotted |-> None, tag |-> None],
            [out |-> <<"b", "xC0", "x80">>, valid |-> FALSE, dotted |-> None, tag |-> None],
            [out |-> <<"1", ".", "0", "xFF">>, valid |-> FALSE, dotted |-> None, tag |-> None]}

\* what read(path) returns for a status path, with the outcome it stands for
StatusReads ==
  {[r |-> Err(k), expect |-> Err(k)] : k \in IoKinds}
    \cup {[r |-> Ok(s.text), expect |-> s.expect] : s \in {x \in StatusTexts : x.plain}}

\* what read(path) returns for a comm path: a failure, or the record of a
\* process of that name, with the SHELLS entry the record names (if any)
CommReads ==
  {[r |-> Err(k), failed |-> TRUE, kind |-> k, shell |-> None] : k \in IoKinds}
    \cup {[r |-> Ok(n \o <<"\n">>), failed |-> FALSE, kind |-> "",
           shell |-> IF n \in Range(SHELLS) THEN Some(n) ELSE None] : n \in Names}

\* what run(name) returns
RunReturns ==
  {[r |-> Err(k), failed |-> TRUE, kind |-> k, valid |-> FALSE, dotted |-> None] :
     k \in IoKinds}
    \cup {[r |-> Ok(o.out), failed |-> FALSE, kind |-> "", valid |-> o.valid,
           dotted |-> o.dotted] : o \in Outputs}

\* ------------------------------------------------------------------ detect_with

One == <<"1">>

\* the condition, were the ceiling tested one hop late
LoopContinuesOneLate(p, h) == NumLess(One, p) /\ h <= MaxHops

\* the condition of the while loop
LoopContinues(p, h) == NumLess(One, p) /\ h < MaxHops

NoFail == [happened |-> FALSE, kind |-> "", reads |-> 0, runs |-> 0]

NoCand == [seen |-> FALSE, shell |-> None, reads |-> 0]

NoProbe == [ran |-> FALSE, failed |-> FALSE, kind |-> "", valid |-> FALSE, dotted |-> None]

Idle == [fn |-> "none"]

NotRun == [done |-> FALSE]

InitDetect ==
  /\ pc = "start"
  /\ pid = <<"0">>
  /\ hops = 0
  /\ name = None
  /\ result = None
  /\ reads = 0
  /\ runs = 0
  /\ examined = 0
  /\ lowComm = FALSE
  /\ cyc = FALSE
  /\ passed = FALSE
  /\ cand = NoCand
  /\ probe = NoProbe
  /\ fail = NoFail

Init == InitDetect /\ call = Idle /\ ret = NotRun

\* the first failing step, as the environment produced it
Failed(kind, nreads, nruns) ==
  IF fail.happened THEN fail
  ELSE [happened |-> TRUE, kind |-> kind, reads |-> nreads, runs |-> nruns]

\* line 31: the parent of the calling process
Start ==
  /\ pc = "start"
  /\ \E s \in StatusReads :
       LET v == ppid_from_path_with(s.r)
       IN /\ reads' = reads + 1
          /\ fail' = IF s.expect.ok THEN fail ELSE Failed(s.expect.kind, reads + 1, runs)
          /\ IF v.ok
             THEN pid' = v.val /\ pc' = "loop" /\ result' = result
             ELSE pid' = pid /\ pc' = "done" /\ result' = Some(v)
  /\ hops' = 0
  /\ UNCHANGED <<name, runs, examined, lowComm, cyc, passed, cand, probe, call, ret>>

\* lines 33 and 45: the loop test, and the failure after the loop
Loop ==
  /\ pc = "loop"
  /\ IF LoopContinues(pid, hops)
     THEN pc' = "comm" /\ result' = result
     ELSE pc' = "done" /\ result' = Some(Err("NotFound"))
  /\ UNCHANGED <<pid, hops, name, reads, runs, examined, lowComm, cyc, passed, cand,
                 probe, fail, call, ret>>

\* lines 34-35: the command name of the candidate
ReadComm ==
  /\ pc = "comm"
  /\ \E c \in CommReads :
       LET v == shell_from_pid_with(c.r)
       IN /\ cand' = [seen |-> TRUE, shell |-> c.shell, reads |-> reads + 1]
          /\ fail' = IF c.failed THEN Failed(c.kind, reads + 1, runs) ELSE fail
          /\ IF ~v.ok THEN pc' = "done" /\ result' = Some(v) /\ name' = name
             ELSE IF v.val.some THEN pc' = "probe" /\ result' = result /\ name' = v.val
             ELSE pc' = "status" /\ result' = result /\ name' = name
  /\ reads' = reads + 1
  /\ examined' = examined + 1
  /\ lowComm' = (lowComm \/ ~NumLess(One, pid))
  /\ UNCHANGED <<pid, hops, runs, cyc, passed, probe, call, ret>>

\* lines 36-38: the version of the matched shell, and the result
Probe ==
  /\ pc = "probe"
  /\ \E o \in RunReturns :
       LET v == shell_version_with(name.val, o.r)
       IN /\ runs' = runs + (IF v.ran THEN 1 ELSE 0)
          /\ probe' = [ran |-> v.ran, failed |-> o.failed, kind |-> o.kind,
                       valid |-> o.valid, dotted |-> o.dotted]
          /\ fail' = IF ~v.ran THEN fail
                     ELSE IF o.failed THEN Failed(o.kind, reads, runs + 1)
                     ELSE IF ~o.valid THEN Failed("InvalidData", reads, runs + 1)
                     ELSE fail
          /\ result' = Some(IF v.res.ok
                            THEN Ok([name |-> name.val, version |-> v.res.val])
                            ELSE v.res)
  /\ pc' = "done"
  /\ UNCHANGED <<pid, hops, name, reads, examined, lowComm, cyc, passed, cand, call, ret>>

\* lines 41-43: the parent of the candidate
ReadStatus ==
  /\ pc = "status"
  /\ \E s \in StatusReads :
       LET v == ppid_from_path_with(s.r)
       IN /\ fail' = IF s.expect.ok THEN fail ELSE Failed(s.expect.kind, reads + 1, runs)
          /\ IF v.ok
             THEN /\ pid' = v.val /\ hops' = hops + 1 /\ pc' = "loop" /\ result' = result
                  /\ cyc' = (cyc \/ v.val = pid)
             ELSE /\ pid' = pid /\ hops' = hops /\ pc' = "done" /\ result' = Some(v)
                  /\ cyc' = cyc
  /\ reads' = reads + 1
  /\ passed' = (passed \/ cand.shell.some)
  /\ UNCHANGED <<name, runs, examined, lowComm, cand, probe, call, ret>>

Next == Start \/ Loop \/ ReadComm \/ Probe \/ ReadStatus

Spec == Init /\ [][Next]_vars

\* detect_with runs to its end: it is sequential code whose capabilities return
FairSpec == Spec /\ WF_vars(Next)

\* ------------------------------------------------------------------ the functions alone

Calls ==
  {[fn |-> "ppid_from_text", in |-> s] : s \in StatusTexts}
    \cup {[fn |-> "shell_from_pid_with", in |-> c] : c \in CommTexts}
    \cup {[fn |-> "shell_version_with", in |-> [name |-> n, run |-> o]] :
            n \in Range(SHELLS), o \in RunReturns}

InitFn == InitDetect /\ call \in Calls /\ ret = NotRun

CallPpid ==
  /\ call.fn = "ppid_from_text" /\ ~ret.done
  /\ ret' = [done |-> TRUE, val |-> ppid_from_text(call.in.text)]
  /\ UNCHANGED <<detectVars, runs, call>>

CallShell ==
  /\ call.fn = "shell_from_pid_with" /\ ~ret.done
  /\ ret' = [done |-> TRUE, val |-> shell_from_pid_with(Ok(call.in.text))]
  /\ UNCHANGED <<detectVars, runs, call>>

CallVersion ==
  /\ call.fn = "shell_version_with" /\ ~ret.done
  /\ LET v == shell_version_with(call.in.name, call.in.run.r)
     IN ret' = [done |-> TRUE, val |-> v.res] /\ runs' = runs + (IF v.ran THEN 1 ELSE 0)
  /\ UNCHANGED <<detectVars, call>>

NextFn == CallPpid \/ CallShell \/ CallVersion

SpecFn == InitFn /\ [][NextFn]_vars

\* ------------------------------------------------------------------ claims

Bash == <<"b", "a", "s", "h">>

Dash == <<"d", "a", "s", "h">>

Mksh == <<"m", "k", "s", "h">>

Fish == <<"f", "i", "s", "h">>

Succeeded == result.some /\ result.val.ok

\* the probe returned text: run did not fail and its bytes are valid UTF-8
ProbeReturnedText == probe.ran /\ ~probe.failed /\ probe.valid

C2_BoundedWalk ==
  /\ [](/\ examined <= MaxHops
        /\ hops <= MaxHops
        /\ ~lowComm
        /\ pc \in {"comm", "probe", "status"} => NumLess(One, pid) /\ hops < MaxHops
        /\ (pc = "done" /\ ~fail.happened /\ ~cand.shell.some) =>
             result = Some(Err("NotFound")))
  /\ <>(pc = "done")

\* a walk round a cycle of parent links ends at the ceiling
C2_Witness ==
  /\ pc = "done" /\ cyc /\ hops = MaxHops /\ examined = MaxHops
  /\ NumLess(One, pid) /\ result = Some(Err("NotFound"))

\* C3: once a step has failed, detect_with has ended with an error of that
\* failure's kind, and no read or probe was made after the failing step.
C3_FailurePropagates ==
  fail.happened =>
    /\ pc = "done"
    /\ result = Some(Err(fail.kind))
    /\ reads = fail.reads
    /\ runs = fail.runs

\* the status record of the third ancestor holds a malformed PPid value
C3_Witness ==
  /\ fail.happened /\ fail.kind = "InvalidData" /\ hops = 2 /\ runs = 0
  /\ reads = 2 * examined + 1

\* C4: the catalog is the 13 names of the specification, and the record of
\* each of them (the name and a newline) is classified as that shell.
C4_CatalogOfThirteen ==
  (call.fn = "shell_from_pid_with" /\ ret.done
     /\ call.in.name \in Catalog /\ call.in.trailer = <<"\n">>) =>
    ret.val = Ok(Some(call.in.name))

\* the text with one trailing line terminator removed
StripTerminator(t) ==
  IF EndsWith(t, <<"\r", "\n">>) THEN SubSeq(t, 1, Len(t) - 2)
  ELSE IF EndsWith(t, <<"\n">>) THEN SubSeq(t, 1, Len(t) - 1)
  ELSE t

\* C5: a text that is not exactly a catalog name once a single trailing line
\* terminator is removed is classified as absent.
C5_ExactAfterOneTrim ==
  (call.fn = "shell_from_pid_with" /\ ret.done
     /\ StripTerminator(call.in.text) \notin Catalog) =>
    ret.val = Ok(None)

\* C6: the probe of dash never calls run and yields an absent version.
C6_DashNeverRuns ==
  (call.fn = "shell_version_with" /\ ret.done /\ call.in.name = Dash) =>
    runs = 0 /\ ret.val = Ok(None)

MirbsdBanner ==
  <<"@", "(", "#", ")", "M", "I", "R", "B", "S", "D", " ", "K", "S", "H", " ",
    "R", "5", "9", " ", "2", "0", "2", "0", "/", "1", "0", "/", "3", "1">>

\* C7: the version of mksh is the release tag of its banner, R59 for the
\* MIRBSD banner; the shells with a version flag return the first dotted
\* version of the captured text.
C7_PatternPerShell ==
  (call.fn = "shell_version_with" /\ ret.done
     /\ ~call.in.run.failed /\ call.in.run.valid) =>
    /\ (call.in.name = Mksh /\ call.in.run.r.val = MirbsdBanner) =>
         ret.val = Ok(Some(<<"R", "5", "9">>))
    /\ call.in.name \notin {Mksh, Dash} => ret.val = Ok(call.in.run.dotted)

\* C8: parent-id reading yields the id of the first PPid: line, NotFound when
\* there is no such line, and InvalidData when the token of the first such
\* line is not a non-negative integer that fits 32 bits.
C8_ParentIdOutcomes ==
  (call.fn = "ppid_from_text" /\ ret.done) => ret.val = call.in.expect

LabelledLines(text) ==
  {i \in 1..Len(Lines(text)) : StartsWith(Lines(text)[i], PPidLabel)}

\* a malformed first PPid: line decides, though a well-formed one follows
C8_Witness ==
  /\ call.fn = "ppid_from_text" /\ ret.done
  /\ Cardinality(LabelledLines(call.in.text)) = 2
  /\ ret.val = Err("InvalidData")

C10_InvalidOutput ==
  (probe.ran /\ ~probe.failed /\ ~probe.valid) =>
    pc = "done" /\ result = Some(Err("InvalidData"))

\* the probe of fish captured bytes that are not text
C10_Witness ==
  /\ probe.ran /\ ~probe.failed /\ ~probe.valid /\ name = Some(Fish)
  /\ result = Some(Err("InvalidData"))

====
